---- MODULE Spec2Model ----
(***************************************************************************)
(* MCP server registry of a vault (mcp-servers registry accessor):         *)
(* getMcpServers, addMcpServer, updateMcpServer and removeMcpServer over   *)
(* the per-vault file <vault>/.vault/mcp-servers-registry.json, with the   *)
(* vault chosen by getActiveVault(windowId).  Every await of the code is a *)
(* step boundary, so calls of different callers interleave there.          *)
(***************************************************************************)
EXTENDS Integers, Sequences, FiniteSets, TLC

\* ---------------------------------------------------------------- bounds
\* Number of operations (registry calls, vault openings) issued in one
\* behaviour.
MaxCalls == 3

\* Callers that can have a call in flight at the same time (IPC requests).
Procs == {"c1", "c2"}

\* ------------------------------------------------------------ value sets
VaultIds == {"v1", "v2"}

\* BrowserWindow ids as the accessor's `windowId?: number` receives them.
WindowIds == {0, 1}

\* `windowId` left out by the caller (undefined).
NoWindow == -1

\* No vault (getActiveVaultForWindow found none / nothing resolved yet).
NoVault == "none"

\* `server.id` left out by the caller (undefined).
NoId == "undefined"

\* Values uuidv4() can return.
UUIDs == {"u1", "u2"}

\* Ids a caller can put in a record or pass as serverId.  "" is a falsy
\* string; "constructor" and "__proto__" name properties that every plain
\* JavaScript object inherits from Object.prototype.
ClientIds == {"s1", "", "constructor", "__proto__"}

\* Stands for the configuration fields of a server record.
Names == {"x", "y"}

\* z.infer<typeof McpServerSchema> as a caller passes it: the id is the
\* caller's, or left out.
McpServer == [id : ClientIds \cup {NoId}, name : Names]

\* Ids a caller passes as serverId: ids it has seen in a registry or not.
ServerIds == (ClientIds \ {""}) \cup UUIDs

\* Properties a plain object `{}` inherits (truthy on lookup).
ObjectPrototypeProps == {"constructor", "__proto__"}

\* ----------------------------------------------------- JavaScript objects
\* An object used as a string-keyed map is a function on its own keys.
EmptyObject == [k \in {} |-> [id |-> NoId, name |-> "x"]]

\* `!!obj[key]` where the own values are objects: own key, or inherited.
Truthy(obj, key) == key \in DOMAIN obj \/ key \in ObjectPrototypeProps

\* `obj[key] = val`: "__proto__" hits the inherited setter (no own key).
SetProp(obj, key, val) ==
    IF key = "__proto__"
    THEN obj
    ELSE [k \in DOMAIN obj \cup {key} |-> IF k = key THEN val ELSE obj[k]]

\* `delete obj[key]`
DeleteProp(obj, key) == [k \in DOMAIN obj \ {key} |-> obj[k]]

\* `!server.id`
Falsy(id) == id = NoId \/ id = ""

\* ------------------------------------------------------------ file system
\* A vault as vaultManager.getVaults() lists it: { id, path }.
Vault(v) == [id |-> v, path |-> <<"vaults", v>>]

\* The value of `activeVault` before a vault is resolved.
NoVaultRecord == [id |-> NoVault, path |-> <<>>]

\* path.join(vaultPath, ".vault", "mcp-servers-registry.json")
getMcpServersRegistryPath(vaultPath) ==
    vaultPath \o <<".vault", "mcp-servers-registry.json">>

RegistryPaths == {getMcpServersRegistryPath(Vault(v).path) : v \in VaultIds}

\* What a registry path holds: no file, a file McpServerRegistrySchema
\* rejects, or a document { servers: {...} } the schema accepts.
AbsentFile == [kind |-> "absent", servers |-> EmptyObject]
MalformedFile == [kind |-> "malformed", servers |-> EmptyObject]
ValidFile(doc) == [kind |-> "valid", servers |-> doc.servers]

\* The literal { servers: {} } passed as defaultValue.
DefaultRegistry == [servers |-> EmptyObject]

\* readJsonFile(filePath, schema, defaultValue): the validated document, or
\* defaultValue when the file is absent or fails validation.
readJsonFile(fs, filePath, defaultValue) ==
    IF fs[filePath].kind = "valid"
    THEN [servers |-> fs[filePath].servers]
    ELSE defaultValue

\* writeJsonFile(filePath, data): the whole document replaces the file.
writeJsonFile(fs, filePath, data) ==
    [fs EXCEPT ![filePath] = ValidFile(data)]

\* windowVaultManager.getActiveVaultForWindow(windowId, vaults): the vault
\* of `vaults` associated with the window, if any.
getActiveVaultForWindow(assoc, windowId, vs) ==
    IF windowId \in WindowIds
       /\ \E i \in 1..Len(vs) : vs[i].id = assoc[windowId]
    THEN Vault(assoc[windowId])
    ELSE NoVaultRecord

\* `if (windowId)`: undefined and 0 are falsy.
WindowIdGiven(windowId) == windowId # NoWindow /\ windowId # 0

\* getActiveVault(windowId) after `vaults` is known and non-empty.
getActiveVault(assoc, windowId, vs) ==
    IF WindowIdGiven(windowId)
       /\ getActiveVaultForWindow(assoc, windowId, vs) # NoVaultRecord
    THEN getActiveVaultForWindow(assoc, windowId, vs)
    ELSE vs[1]

\* ------------------------------------------------------------ the mutators
\* A mutator that returns the registry as it read it.
addMutatorStoresNothing(registry, server) == registry

\* addMcpServer's mutator: registry.servers[server.id] = server
addMutator(registry, server) ==
    [servers |-> SetProp(registry.servers, server.id, server)]

\* The existence test of updateMcpServer / removeMcpServer:
\* `if (!registry.servers[serverId]) throw ...`
serverNotFound(registry, serverId) == ~Truthy(registry.servers, serverId)

\* A mutator that builds a new mapping holding only the updated record.
updateMutatorDropsOthers(registry, serverId, server) ==
    [servers |-> SetProp(EmptyObject, serverId, server)]

\* updateMcpServer's mutator past the test: registry.servers[serverId] = server
updateMutator(registry, serverId, server) ==
    [servers |-> SetProp(registry.servers, serverId, server)]

\* removeMcpServer's mutator past the test: delete registry.servers[serverId]
removeMutator(registry, serverId) ==
    [servers |-> DeleteProp(registry.servers, serverId)]

\* ------------------------------------------------------------------ state
VARIABLES
    vaults,        \* vaultManager: the list of known vaults
    windowVaults,  \* windowVaultManager: window id -> active vault id
    files,         \* registry path -> content
    call,          \* per caller: the call in flight and its locals
    calls          \* operations issued so far

vars == <<vaults, windowVaults, files, call, calls>>

\* What a call has handed back to its caller.
Pending == [kind |-> "pending", ok |-> FALSE, servers |-> EmptyObject]
Boolean(b) == [kind |-> "boolean", ok |-> b, servers |-> EmptyObject]
Servers(m) == [kind |-> "servers", ok |-> FALSE, servers |-> m]
Thrown == [kind |-> "thrown", ok |-> FALSE, servers |-> EmptyObject]

NoError == "none"

Idle ==
    [pc |-> "idle", op |-> "none", serverId |-> NoId,
     server |-> [id |-> NoId, name |-> "x"], windowId |-> NoWindow,
     vaults |-> <<>>, activeVault |-> NoVaultRecord,
     data |-> DefaultRegistry, registry |-> DefaultRegistry,
     error |-> NoError, returned |-> Pending]

\* The known vaults at start-up: none, one or two.
VaultLists == {<<>>, <<Vault("v1")>>, <<Vault("v1"), Vault("v2")>>}

\* The registry files at start-up: every vault's file is absent, or rejected
\* by the schema, or holds the empty registry.
InitialFiles ==
    {[f \in RegistryPaths |-> c] :
        c \in {AbsentFile, MalformedFile, ValidFile(DefaultRegistry)}}

Init ==
    /\ vaults \in VaultLists
    /\ windowVaults = [w \in WindowIds |-> NoVault]
    /\ files \in InitialFiles
    /\ call = [p \in Procs |-> Idle]
    /\ calls = 0

\* ---------------------------------------------------------------- actions
\* An operation without its try / catch: the error leaves the operation.
onCatchRethrows(op) == Thrown

\* The catch block of each public operation: log, then {} or false.
onCatch(op) ==
    IF op = "getMcpServers" THEN Servers(EmptyObject) ELSE Boolean(FALSE)

\* The callers are interchangeable: "c2" stands for a caller whose call
\* overlaps one of "c1".
CallerBefore(q, p) == q = "c1" /\ p = "c2"

\* A caller may enter a public operation.
CanEnter(p) ==
    /\ call[p].pc = "idle"
    /\ \A q \in Procs : CallerBefore(q, p) => call[q].pc # "idle"
    /\ calls < MaxCalls

\* The locals of an operation just entered; the first thing each operation
\* does is `await getActiveVault(windowId)`, which awaits getVaults().
Entered(op, serverId, server, windowId) ==
    [Idle EXCEPT !.pc = "getVaults", !.op = op, !.serverId = serverId,
                 !.server = server, !.windowId = windowId]

getMcpServers(p, windowId) ==
    /\ CanEnter(p)
    /\ call' = [call EXCEPT ![p] =
                  Entered("getMcpServers", NoId, Idle.server, windowId)]
    /\ calls' = calls + 1
    /\ UNCHANGED <<vaults, windowVaults, files>>

addMcpServer(p, server, windowId) ==
    /\ CanEnter(p)
    /\ call' = [call EXCEPT ![p] =
                  Entered("addMcpServer", NoId, server, windowId)]
    /\ calls' = calls + 1
    /\ UNCHANGED <<vaults, windowVaults, files>>

updateMcpServer(p, serverId, server, windowId) ==
    /\ CanEnter(p)
    /\ call' = [call EXCEPT ![p] =
                  Entered("updateMcpServer", serverId, server, windowId)]
    /\ calls' = calls + 1
    /\ UNCHANGED <<vaults, windowVaults, files>>

removeMcpServer(p, serverId, windowId) ==
    /\ CanEnter(p)
    /\ call' = [call EXCEPT ![p] =
                  Entered("removeMcpServer", serverId, Idle.server, windowId)]
    /\ calls' = calls + 1
    /\ UNCHANGED <<vaults, windowVaults, files>>

\* `const vaults = await vaultManager.getVaults()` and the length test:
\* "No vaults found" is thrown inside the operation's try block.
GetVaults(p) ==
    /\ call[p].pc = "getVaults"
    /\ call' = [call EXCEPT ![p] =
                  IF Len(vaults) = 0
                  THEN [call[p] EXCEPT !.pc = "done",
                                       !.error = "No vaults found",
                                       !.returned = onCatch(call[p].op)]
                  ELSE [call[p] EXCEPT !.pc = "getActiveVault",
                                       !.vaults = vaults]]
    /\ UNCHANGED <<vaults, windowVaults, files, calls>>

\* An add that leaves a falsy id as it is.
assignIdNeverGenerates(op, serverId, server, uuid) ==
    IF op = "updateMcpServer"
    THEN [server EXCEPT !.id = serverId]
    ELSE server

\* An update that leaves the id of the caller's record as it is.
assignIdKeepsBodyId(op, serverId, server, uuid) ==
    IF op = "addMcpServer" /\ Falsy(server.id)
    THEN [server EXCEPT !.id = uuid]
    ELSE server

\* `server.id` as the operation leaves it before updateJsonFile is called:
\* add generates a uuid for a falsy id, update forces serverId.
assignId(op, serverId, server, uuid) ==
    IF op = "addMcpServer" /\ Falsy(server.id)
    THEN [server EXCEPT !.id = uuid]
    ELSE IF op = "updateMcpServer"
         THEN [server EXCEPT !.id = serverId]
         ELSE server

\* The rest of getActiveVault and the synchronous code up to the first
\* file access of readJsonFile / updateJsonFile.
ResolveActiveVault(p) ==
    /\ call[p].pc = "getActiveVault"
    /\ \E uuid \in UUIDs :
         call' = [call EXCEPT ![p] =
                    [call[p] EXCEPT
                       !.pc = "readJsonFile",
                       !.activeVault =
                           getActiveVault(windowVaults, call[p].windowId,
                                          call[p].vaults),
                       !.server = assignId(call[p].op, call[p].serverId,
                                           call[p].server, uuid)]]
    /\ UNCHANGED <<vaults, windowVaults, files, calls>>

\* What the operation does with the document it has read: getMcpServers
\* returns its servers; updateJsonFile applies the operation's mutator and,
\* unless the mutator throws, goes on to write the result.
afterRead(c, data) ==
    CASE c.op = "getMcpServers" ->
           [c EXCEPT !.pc = "done", !.data = data,
                     !.returned = Servers(data.servers)]
      [] c.op = "addMcpServer" ->
           [c EXCEPT !.pc = "writeJsonFile", !.data = data,
                     !.registry = addMutator(data, c.server)]
      [] c.op = "updateMcpServer" ->
           IF serverNotFound(data, c.serverId)
           THEN [c EXCEPT !.pc = "done", !.data = data,
                          !.error = "not found",
                          !.returned = onCatch(c.op)]
           ELSE [c EXCEPT !.pc = "writeJsonFile", !.data = data,
                          !.registry = updateMutator(data, c.serverId,
                                                     c.server)]
      [] c.op = "removeMcpServer" ->
           IF serverNotFound(data, c.serverId)
           THEN [c EXCEPT !.pc = "done", !.data = data,
                          !.error = "not found",
                          !.returned = onCatch(c.op)]
           ELSE [c EXCEPT !.pc = "writeJsonFile", !.data = data,
                          !.registry = removeMutator(data, c.serverId)]

\* The read of the registry file (readJsonFile, directly or as the first
\* half of updateJsonFile) and the synchronous code that follows it.
ReadJsonFile(p) ==
    /\ call[p].pc = "readJsonFile"
    /\ call' = [call EXCEPT ![p] =
                  afterRead(call[p], readJsonFile(files,
                      getMcpServersRegistryPath(call[p].activeVault.path),
                      DefaultRegistry))]
    /\ UNCHANGED <<vaults, windowVaults, files, calls>>

\* A write that resolves the window's active vault again when it writes.
WriteJsonFileToCurrentVault(p) ==
    /\ call[p].pc = "writeJsonFile"
    /\ files' = writeJsonFile(files,
                    getMcpServersRegistryPath(
                        getActiveVault(windowVaults, call[p].windowId,
                                       call[p].vaults).path),
                    call[p].registry)
    /\ call' = [call EXCEPT ![p] =
                  [call[p] EXCEPT !.pc = "done",
                                  !.returned = Boolean(TRUE)]]
    /\ UNCHANGED <<vaults, windowVaults, calls>>

\* The second half of updateJsonFile: the whole document is written back
\* and the operation returns true.
WriteJsonFile(p) ==
    /\ call[p].pc = "writeJsonFile"
    /\ files' = writeJsonFile(files,
                    getMcpServersRegistryPath(call[p].activeVault.path),
                    call[p].registry)
    /\ call' = [call EXCEPT ![p] =
                  [call[p] EXCEPT !.pc = "done",
                                  !.returned = Boolean(TRUE)]]
    /\ UNCHANGED <<vaults, windowVaults, calls>>

\* The write rejects (disk failure): nothing is written, the rejection is
\* caught by the operation's catch block.
WriteJsonFileFails(p) ==
    /\ call[p].pc = "writeJsonFile"
    /\ call' = [call EXCEPT ![p] =
                  [call[p] EXCEPT !.pc = "done", !.error = "write failed",
                                  !.returned = onCatch(call[p].op)]]
    /\ UNCHANGED <<vaults, windowVaults, files, calls>>

\* The caller has its result and may issue another call.
Return(p) ==
    /\ call[p].pc = "done"
    /\ call' = [call EXCEPT ![p] = Idle]
    /\ UNCHANGED <<vaults, windowVaults, files, calls>>

\* openVaultMutation(window): the user picks a vault, which becomes a known
\* vault and the window's active vault.
openVaultMutation(windowId, v) ==
    /\ calls < MaxCalls
    /\ calls' = calls + 1
    /\ vaults' = IF \E i \in 1..Len(vaults) : vaults[i].id = v
                 THEN vaults
                 ELSE Append(vaults, Vault(v))
    /\ windowVaults' = [windowVaults EXCEPT ![windowId] = v]
    /\ UNCHANGED <<files, call>>

\* Window arguments: every window id, or none.
WindowArgs == WindowIds \cup {NoWindow}

\* Bodies passed to updateMcpServer: without an id, or with one.
UpdateBodies == {r \in McpServer : r.id \in {NoId, "s1"}}

\* A caller of P enters an operation with arguments from the given sets.
Enters(P, W, S, I, B) ==
    \/ \E p \in P, w \in W : getMcpServers(p, w)
    \/ \E p \in P, s \in S, w \in W : addMcpServer(p, s, w)
    \/ \E p \in P, id \in I, s \in B, w \in W : updateMcpServer(p, id, s, w)
    \/ \E p \in P, id \in I, w \in W : removeMcpServer(p, id, w)

OpenVaults == \E w \in WindowIds, v \in VaultIds : openVaultMutation(w, v)

\* One caller, every argument: the operations one after the other, on a
\* disk whose writes complete.
Next ==
    \/ Enters({"c1"}, WindowArgs, McpServer, ServerIds, UpdateBodies)
    \/ \E p \in Procs : GetVaults(p)
    \/ \E p \in Procs : ResolveActiveVault(p)
    \/ \E p \in Procs : ReadJsonFile(p)
    \/ \E p \in Procs : WriteJsonFile(p)
    \/ \E p \in Procs : Return(p)
    \/ OpenVaults

Spec == Init /\ [][Next]_vars

\* The same on a disk whose writes can fail.
NextFaulty ==
    \/ Next
    \/ \E p \in Procs : WriteJsonFileFails(p)

SpecFaulty == Init /\ [][NextFaulty]_vars

\* Two callers whose calls overlap, on a few arguments.
RaceServers ==
    {[id |-> "s1", name |-> "x"], [id |-> NoId, name |-> "y"],
     [id |-> "__proto__", name |-> "x"]}

RaceBodies == {[id |-> NoId, name |-> "y"]}

NextRace ==
    \/ Enters(Procs, {NoWindow, 1}, RaceServers, {"s1"}, RaceBodies)
    \/ \E p \in Procs : GetVaults(p)
    \/ \E p \in Procs : ResolveActiveVault(p)
    \/ \E p \in Procs : ReadJsonFile(p)
    \/ \E p \in Procs : WriteJsonFile(p)
    \/ \E p \in Procs : Return(p)
    \/ OpenVaults

SpecRace == Init /\ [][NextRace]_vars

\* ----------------------------------------------------------- properties
\* The registry file the call of p operates on.
RegistryPath(p) == getMcpServersRegistryPath(call[p].activeVault.path)

\* The document the call of p reads if it reads now.
DocumentRead(p) == readJsonFile(files, RegistryPath(p), DefaultRegistry)

\* The call of p takes a step.
Stepped(p) == call'[p] # call[p]

\* C1: updateMcpServer with an id that is not a key of the registry document
\* returns false and leaves the registry file as it was: the step that reads
\* the document ends the call with false, without a write.
C1_UpdateOfAbsentIdReturnsFalse ==
    [][\A p \in Procs :
         (/\ call[p].op = "updateMcpServer"
          /\ call[p].pc = "readJsonFile"
          /\ Stepped(p)
          /\ call[p].serverId \notin DOMAIN DocumentRead(p).servers)
         => (/\ call'[p].pc = "done"
             /\ call'[p].returned = Boolean(FALSE)
             /\ files' = files)]_vars

\* C2: updateMcpServer with an id that is a key of the registry document
\* returns true; the file then holds under that key the caller's record with
\* its id set to the key, whatever id the record carried, every other key
\* keeps its record and the key set is the same.
C2_UpdateOfExistingId ==
    [][\A p \in Procs :
         (call[p].op = "updateMcpServer" /\ Stepped(p)) =>
           /\ call[p].pc = "getActiveVault" =>
                /\ call'[p].server.id = call[p].serverId
                /\ call'[p].server.name = call[p].server.name
           /\ (/\ call[p].pc = "readJsonFile"
               /\ call[p].serverId \in DOMAIN DocumentRead(p).servers)
              => call'[p].pc = "writeJsonFile"
           /\ (/\ call[p].pc = "writeJsonFile"
               /\ call[p].serverId \in DOMAIN call[p].data.servers)
              => /\ call'[p].returned = Boolean(TRUE)
                 /\ files'[RegistryPath(p)].kind = "valid"
                 /\ DOMAIN files'[RegistryPath(p)].servers
                       = DOMAIN call[p].data.servers
                 /\ files'[RegistryPath(p)].servers[call[p].serverId]
                       = [id |-> call[p].serverId,
                          name |-> call[p].server.name]
                 /\ \A k \in DOMAIN call[p].data.servers \ {call[p].serverId} :
                       files'[RegistryPath(p)].servers[k]
                          = call[p].data.servers[k]]_vars

\* An update has returned true after replacing a different record in a
\* registry of two or more records.
C2_Witness ==
    \E p \in Procs :
       /\ call[p].op = "updateMcpServer"
       /\ call[p].pc = "done"
       /\ call[p].returned = Boolean(TRUE)
       /\ call[p].serverId \in DOMAIN call[p].data.servers
       /\ Cardinality(DOMAIN call[p].data.servers) >= 2
       /\ call[p].data.servers[call[p].serverId] # call[p].server
       /\ files[RegistryPath(p)].servers[call[p].serverId] = call[p].server

\* C3: removeMcpServer with an id that is not a key returns false and leaves
\* the registry file as it was; with an id that is a key it returns true and
\* the file holds the previous mapping without that one key.
C3_RemoveExactlyThatKey ==
    [][\A p \in Procs :
         (call[p].op = "removeMcpServer" /\ Stepped(p)) =>
           /\ (/\ call[p].pc = "readJsonFile"
               /\ call[p].serverId \notin DOMAIN DocumentRead(p).servers)
              => (/\ call'[p].pc = "done"
                  /\ call'[p].returned = Boolean(FALSE)
                  /\ files' = files)
           /\ (/\ call[p].pc = "readJsonFile"
               /\ call[p].serverId \in DOMAIN DocumentRead(p).servers)
              => call'[p].pc = "writeJsonFile"
           /\ (/\ call[p].pc = "writeJsonFile"
               /\ call[p].serverId \in DOMAIN call[p].data.servers)
              => /\ call'[p].returned = Boolean(TRUE)
                 /\ files'[RegistryPath(p)].kind = "valid"
                 /\ files'[RegistryPath(p)].servers
                       = DeleteProp(call[p].data.servers, call[p].serverId)]_vars

\* C4: after addMcpServer has returned true, a getMcpServers that reads the
\* same registry file next (the file still holds what the add wrote) returns
\* a mapping with the added record under its id, and with every other record
\* the add had read.
C4_AddThenList ==
    [][\A p, q \in Procs :
         (/\ call[p].op = "addMcpServer"
          /\ call[p].pc = "done"
          /\ call[p].returned = Boolean(TRUE)
          /\ call[q].op = "getMcpServers"
          /\ call[q].pc = "readJsonFile"
          /\ Stepped(q)
          /\ RegistryPath(q) = RegistryPath(p)
          /\ files[RegistryPath(p)] = ValidFile(call[p].registry))
         => /\ call'[q].returned.kind = "servers"
            /\ call[p].server.id \in DOMAIN call'[q].returned.servers
            /\ call'[q].returned.servers[call[p].server.id] = call[p].server
            /\ \A k \in DOMAIN call[p].data.servers \ {call[p].server.id} :
                  /\ k \in DOMAIN call'[q].returned.servers
                  /\ call'[q].returned.servers[k]
                        = call[p].data.servers[k]]_vars

\* Ids of UUIDs are never passed by a caller of Spec: a record of an add that
\* carries one got it from uuidv4().
IdGenerated(p) ==
    call[p].op = "addMcpServer" /\ call[p].server.id \in UUIDs

\* C5 as claimed: an add without an id stores the record under a generated,
\* non-empty id that is not a key of the document, and the mapping grows by
\* exactly one key.
C5_GeneratedIdIsFresh ==
    [][\A p \in Procs :
         (call[p].op = "addMcpServer" /\ Stepped(p)) =>
           /\ (call[p].pc = "getActiveVault" /\ Falsy(call[p].server.id))
              => (call'[p].server.id \in UUIDs
                  /\ ~Falsy(call'[p].server.id))
           /\ (call[p].pc = "writeJsonFile" /\ IdGenerated(p))
              => /\ call[p].server.id \notin DOMAIN call[p].data.servers
                 /\ Cardinality(DOMAIN files'[RegistryPath(p)].servers)
                       = Cardinality(DOMAIN call[p].data.servers) + 1]_vars

\* C5 as amended: an add without an id stores the record under a non-empty id
\* generated by uuidv4(), whatever the document holds; every other key keeps
\* its record; the mapping grows by exactly one key when the id was not a
\* key, and keeps its keys (the record there is overwritten) when it was.
C5_GeneratedIdStored ==
    [][\A p \in Procs :
         (call[p].op = "addMcpServer" /\ Stepped(p)) =>
           /\ (call[p].pc = "getActiveVault" /\ Falsy(call[p].server.id))
              => /\ call'[p].server.id \in UUIDs
                 /\ ~Falsy(call'[p].server.id)
                 /\ call'[p].server.name = call[p].server.name
           /\ (call[p].pc = "writeJsonFile" /\ IdGenerated(p))
              => /\ call'[p].returned = Boolean(TRUE)
                 /\ files'[RegistryPath(p)].kind = "valid"
                 /\ DOMAIN files'[RegistryPath(p)].servers
                       = DOMAIN call[p].data.servers \cup {call[p].server.id}
                 /\ files'[RegistryPath(p)].servers[call[p].server.id]
                       = call[p].server
                 /\ \A k \in DOMAIN call[p].data.servers \ {call[p].server.id} :
                       files'[RegistryPath(p)].servers[k]
                          = call[p].data.servers[k]
                 /\ Cardinality(DOMAIN files'[RegistryPath(p)].servers)
                       = Cardinality(DOMAIN call[p].data.servers)
                         + (IF call[p].server.id \in DOMAIN call[p].data.servers
                            THEN 0 ELSE 1)]_vars

\* An add without an id has returned true after storing its record under a
\* generated id next to a record that was there before.
C5_Witness ==
    \E p \in Procs :
       /\ IdGenerated(p)
       /\ call[p].pc = "done"
       /\ call[p].returned = Boolean(TRUE)
       /\ call[p].data.servers # EmptyObject
       /\ call[p].server.id \notin DOMAIN call[p].data.servers
       /\ files[RegistryPath(p)].servers[call[p].server.id] = call[p].server

\* C6: every key of every registry file's servers mapping is the id of the
\* record stored under it.
C6_KeyIsRecordId ==
    \A f \in RegistryPaths :
       \A k \in DOMAIN files[f].servers : files[f].servers[k].id = k

\* An update has returned true and its registry file holds two or more
\* records, one of them written by the update.
C6_Witness ==
    \E p \in Procs :
       /\ call[p].op = "updateMcpServer"
       /\ call[p].pc = "done"
       /\ call[p].returned = Boolean(TRUE)
       /\ Cardinality(DOMAIN files[RegistryPath(p)].servers) >= 2
       /\ call[p].serverId \in DOMAIN files[RegistryPath(p)].servers
       /\ files[RegistryPath(p)].servers[call[p].serverId].name
             = call[p].server.name

C8_VaultResolution ==
    [][\A p \in Procs :
         Stepped(p) =>
           /\ call[p].pc = "getVaults"
              => ((call'[p].error = "No vaults found") <=> (Len(vaults) = 0))
           /\ call[p].pc = "getActiveVault"
              => call'[p].activeVault =
                   (IF /\ call[p].windowId # NoWindow
                       /\ getActiveVaultForWindow(windowVaults,
                              call[p].windowId, call[p].vaults)
                            # NoVaultRecord
                    THEN getActiveVaultForWindow(windowVaults,
                             call[p].windowId, call[p].vaults)
                    ELSE call[p].vaults[1])]_vars

\* C9: nothing serializes the mutations of one registry file: the write of an
\* add replaces the file by the document the add read, plus its record,
\* whatever the file holds by then.
C9_WriteFromOwnRead ==
    [][\A p \in Procs :
         (/\ call[p].op = "addMcpServer"
          /\ call[p].pc = "writeJsonFile"
          /\ call[p].server.id # "__proto__"
          /\ Stepped(p))
         => /\ call'[p].returned = Boolean(TRUE)
            /\ files'[RegistryPath(p)].kind = "valid"
            /\ DOMAIN files'[RegistryPath(p)].servers
                  = DOMAIN call[p].data.servers \cup {call[p].server.id}
            /\ \A k \in DOMAIN files'[RegistryPath(p)].servers :
                  files'[RegistryPath(p)].servers[k] =
                     (IF k = call[p].server.id
                      THEN call[p].server
                      ELSE call[p].data.servers[k])]_vars

\* A lost update: two adds with distinct ids on the same registry file have
\* both returned true, and the file holds the record of one of them only.
C9_Witness ==
    \E p, q \in Procs :
       /\ p # q
       /\ call[p].op = "addMcpServer" /\ call[q].op = "addMcpServer"
       /\ call[p].pc = "done" /\ call[q].pc = "done"
       /\ call[p].returned = Boolean(TRUE)
       /\ call[q].returned = Boolean(TRUE)
       /\ RegistryPath(p) = RegistryPath(q)
       /\ call[p].server.id # call[q].server.id
       /\ call[p].server.id # "__proto__" /\ call[q].server.id # "__proto__"
       /\ call[p].server.id \in DOMAIN files[RegistryPath(p)].servers
       /\ call[q].server.id \notin DOMAIN files[RegistryPath(p)].servers

\* C10: on a registry file that is absent or fails validation, getMcpServers
\* returns {} without an error, add applies its mutator to { servers: {} }
\* and writes a document holding exactly the added record, and update and
\* remove return false.
C10_DefaultOnFailure ==
    [][\A p \in Procs :
         Stepped(p) =>
           /\ (/\ call[p].pc = "readJsonFile"
               /\ files[RegistryPath(p)].kind \in {"absent", "malformed"})
              => /\ call[p].op = "getMcpServers"
                    => /\ call'[p].returned = Servers(EmptyObject)
                       /\ call'[p].error = NoError
                 /\ call[p].op = "addMcpServer"
                    => /\ call'[p].pc = "writeJsonFile"
                       /\ call'[p].data = DefaultRegistry
                 /\ call[p].op \in {"updateMcpServer", "removeMcpServer"}
                    => /\ call'[p].pc = "done"
                       /\ call'[p].returned = Boolean(FALSE)
           /\ (/\ call[p].pc = "writeJsonFile"
               /\ call[p].op = "addMcpServer"
               /\ call[p].data = DefaultRegistry)
              => /\ call'[p].returned = Boolean(TRUE)
                 /\ files'[RegistryPath(p)].kind = "valid"
                 /\ DOMAIN files'[RegistryPath(p)].servers
                       = {call[p].server.id}
                 /\ files'[RegistryPath(p)].servers[call[p].server.id]
                       = call[p].server]_vars

\* C11: a registry operation works on the registry file of the one vault it
\* resolved at the start of the call: past the resolution its vault stays the
\* same, what it reads is that vault's file, and its steps leave the registry
\* files of all other vaults as they are, also when the window's active vault
\* has been switched in the meantime.
C11_OnlyResolvedVault ==
    [][\A p \in Procs :
         Stepped(p) =>
           /\ call[p].pc \in {"getVaults", "getActiveVault"}
              => files' = files
           /\ call[p].pc \in {"readJsonFile", "writeJsonFile"}
              => /\ call'[p].activeVault = call[p].activeVault
                 /\ \A f \in RegistryPaths \ {RegistryPath(p)} :
                       files'[f] = files[f]
           /\ call[p].pc = "readJsonFile"
              => /\ call'[p].data = DocumentRead(p)
                 /\ files' = files
           /\ (call[p].pc = "writeJsonFile" /\ call'[p].returned = Boolean(TRUE))
              => files'[RegistryPath(p)] = ValidFile(call[p].registry)]_vars

\* An add called for window 1 resolved the window's active vault (not the
\* first known vault), the window was switched to another vault while the
\* add was suspended, and the add has written its record to the vault it had
\* resolved, the registry file of the window's new vault being without it.
C11_Witness ==
    \E p \in Procs :
       /\ call[p].op = "addMcpServer"
       /\ call[p].pc = "done"
       /\ call[p].returned = Boolean(TRUE)
       /\ call[p].windowId = 1
       /\ call[p].activeVault # call[p].vaults[1]
       /\ windowVaults[1] # NoVault
       /\ windowVaults[1] # call[p].activeVault.id
       /\ call[p].server.id \in DOMAIN files[RegistryPath(p)].servers
       /\ call[p].server.id \notin
             DOMAIN files[getMcpServersRegistryPath(
                              Vault(windowVaults[1]).path)].servers

====
